---- MODULE Spec2Model ----
(***************************************************************************)
(* A model of server.py: the production-tracking server.  The state is the *)
(* module-level stores (SUBMISSION_LOG, MACHINE_PLANS, SID_TO_MACHINE,     *)
(* INITIAL_CABLE_STOCK) and the Socket.IO server's connections and rooms;  *)
(* there is one action per Socket.IO event handler and per HTTP route that *)
(* touches the stores.  Python dicts are functions on a set of string      *)
(* keys; a key the dict lacks is a key outside its DOMAIN.                 *)
(***************************************************************************)
EXTENDS Integers, Sequences, FiniteSets, TLC

VARIABLES
    SUBMISSION_LOG,       \* the list of accepted entries, in arrival order
    MACHINE_PLANS,        \* machine name -> list of plan lines
    SID_TO_MACHINE,       \* session id -> the machine it joined last
    INITIAL_CABLE_STOCK,  \* cable id -> initial stock
    stock_file,           \* what cable_stock_data.json holds
    connected,            \* the session ids of the open connections
    rooms,                \* session id -> the machine rooms it has entered
    outbox,               \* the messages the last event emitted, in order
    last                  \* the last inbound event: its name, sender, input

vars == <<SUBMISSION_LOG, MACHINE_PLANS, SID_TO_MACHINE, INITIAL_CABLE_STOCK,
          stock_file, connected, rooms, outbox, last>>

stores == <<SUBMISSION_LOG, MACHINE_PLANS, SID_TO_MACHINE, INITIAL_CABLE_STOCK>>

(***************************************************************************)
(* Bounds of the model.                                                    *)
(***************************************************************************)
\* Submissions accepted before the model stops accepting more.
MaxLog == 2

\* The connections (Socket.IO session ids) and the machine names clients use.
\* Session ids are random tokens of the server: no machine name equals one.
Sids == {"c1", "c2"}
Machines == {"M1", "M2"}

(***************************************************************************)
(* Python dicts and values.                                                *)
(***************************************************************************)
Get(d, k, default) == IF k \in DOMAIN d THEN d[k] ELSE default

Put(d, k, v) == [x \in DOMAIN d \cup {k} |-> IF x = k THEN v ELSE d[x]]

Remove(d, k) == [x \in DOMAIN d \ {k} |-> d[x]]

Range(s) == {s[i] : i \in DOMAIN s}

\* A JSON number n, a JSON string s, and None: a submitted field may be any.
Num(n) == <<"num", n>>
Str(s) == <<"str", s>>
None == <<"none">>

\* Python's truth value of such a value: None, 0 and '' are falsy.
Truthy(v) == (v[1] = "num" /\ v[2] # 0) \/ (v[1] = "str" /\ v[2] # "")

\* Python's `a or b`.
Or(a, b) == IF Truthy(a) THEN a ELSE b

(***************************************************************************)
(* Text of dates and times.  A date text is its three fields between the   *)
(* dashes, a time text its two fields around the colon; a field is a       *)
(* token, and Numeral gives the number a token of digits denotes and how   *)
(* many digits it has.  A token outside DOMAIN Numeral is not a number.    *)
(* The empty text <<>> stands for '' and for None: both are falsy, and the *)
(* code treats them alike wherever a date text is read.                    *)
(***************************************************************************)
Numeral ==
    "2024" :> [val |-> 2024, width |-> 4] @@ "24" :> [val |-> 24, width |-> 2] @@
    "00" :> [val |-> 0, width |-> 2]  @@ "01" :> [val |-> 1, width |-> 2] @@
    "1"  :> [val |-> 1, width |-> 1]  @@ "02" :> [val |-> 2, width |-> 2] @@
    "05" :> [val |-> 5, width |-> 2]  @@ "5"  :> [val |-> 5, width |-> 1] @@
    "09" :> [val |-> 9, width |-> 2]  @@ "13" :> [val |-> 13, width |-> 2] @@
    "17" :> [val |-> 17, width |-> 2] @@ "30" :> [val |-> 30, width |-> 2] @@
    "61" :> [val |-> 61, width |-> 2] @@ "10" :> [val |-> 10, width |-> 2] @@
    "15" :> [val |-> 15, width |-> 2]

IsNumber(tok, maxWidth) ==
    tok \in DOMAIN Numeral /\ Numeral[tok].width <= maxWidth

IsLeap(y) == (y % 4 = 0 /\ y % 100 # 0) \/ y % 400 = 0

DaysInMonth(y, m) ==
    IF m = 2 THEN (IF IsLeap(y) THEN 29 ELSE 28)
    ELSE IF m \in {4, 6, 9, 11} THEN 30 ELSE 31

\* datetime.strptime(text, '%Y-%m-%d') succeeds: %Y is four digits, %m and %d
\* one or two, and the date must exist; otherwise it raises ValueError.
DateParses(text) ==
    /\ Len(text) = 3
    /\ text[1] \in DOMAIN Numeral /\ Numeral[text[1]].width = 4
    /\ IsNumber(text[2], 2) /\ Numeral[text[2]].val \in 1..12
    /\ IsNumber(text[3], 2) /\ Numeral[text[3]].val >= 1
    /\ Numeral[text[3]].val <= DaysInMonth(Numeral[text[1]].val, Numeral[text[2]].val)

\* ... and then its value, the date <<year, month, day>>.
strptime_date(text) ==
    <<Numeral[text[1]].val, Numeral[text[2]].val, Numeral[text[3]].val>>

\* '%H:%M' matches the time text.
TimeParses(text) ==
    /\ Len(text) = 2
    /\ IsNumber(text[1], 2) /\ Numeral[text[1]].val \in 0..23
    /\ IsNumber(text[2], 2) /\ Numeral[text[2]].val \in 0..59

\* datetime.strptime(f"{date} {time}", "%Y-%m-%d %H:%M"): the datetime
\* <<year, month, day, hour, minute>>.
strptime_datetime(dateText, timeText) ==
    strptime_date(dateText) \o <<Numeral[timeText[1]].val, Numeral[timeText[2]].val>>

\* The zero-padded token of `width` digits that denotes n.
Padded(n, width) ==
    CHOOSE tok \in DOMAIN Numeral : Numeral[tok].val = n /\ Numeral[tok].width = width

\* dt.date() of a datetime.
DateOf(dt) == <<dt[1], dt[2], dt[3]>>

\* d.strftime('%Y-%m-%d') of a date or datetime.
strftime_date(d) == <<Padded(d[1], 4), Padded(d[2], 2), Padded(d[3], 2)>>

\* dt.strftime("%Y-%m-%d %H:%M:%S"); a parsed datetime has no seconds.
strftime_display(dt) ==
    strftime_date(dt) \o <<Padded(dt[4], 2), Padded(dt[5], 2), Padded(0, 2)>>

\* The order of datetimes, as a number that grows with the datetime.
DtKey(dt) == (((dt[1] * 12 + dt[2]) * 31 + dt[3]) * 24 + dt[4]) * 60 + dt[5]

(***************************************************************************)
(* Socket.IO delivery.  A message is an event name, the connections it is  *)
(* delivered to, and its payload.  emit(...) with no room goes to every    *)
(* connection; with room=r to the connections that are in room r, and a    *)
(* connection is always in the room named by its own session id.           *)
(***************************************************************************)
Msg(ev, to, data) == [event |-> ev, to |-> to, data |-> data]

InRoom(conn, rms, room) == {s \in conn : s = room \/ room \in rms[s]}

(***************************************************************************)
(* get_data_for_date                                                       *)
(***************************************************************************)
\* list.sort(key=datetime, reverse=True): a stable sort, newest first.
RECURSIVE InsertDesc(_, _)
InsertDesc(e, s) ==
    IF s = <<>> THEN <<e>>
    ELSE IF DtKey(Head(s)["datetime"]) >= DtKey(e["datetime"])
         THEN <<Head(s)>> \o InsertDesc(e, Tail(s))
         ELSE <<e>> \o s

\* A slip that leaves the filtered list in arrival order.
Unsorted(s) == s

RECURSIVE SortDesc(_)
SortDesc(s) ==
    IF s = <<>> THEN <<>>
    ELSE InsertDesc(s[Len(s)], SortDesc(SubSeq(s, 1, Len(s) - 1)))

OnDate(entry, filter_date) ==
    "datetime" \in DOMAIN entry /\ DateOf(entry["datetime"]) = filter_date

\* A slip that answers a date it cannot parse with an empty list.
get_data_for_date_or_nothing(log, date_str) ==
    IF date_str = <<>> THEN log
    ELSE IF ~DateParses(date_str) THEN <<>>
    ELSE SortDesc(SelectSeq(log, LAMBDA entry : OnDate(entry, strptime_date(date_str))))

get_data_for_date(log, date_str) ==
    IF date_str = <<>> THEN log
    ELSE IF ~DateParses(date_str) THEN log
    ELSE SortDesc(SelectSeq(log, LAMBDA entry : OnDate(entry, strptime_date(date_str))))

(***************************************************************************)
(* broadcast_online_status and broadcast_data                              *)
(***************************************************************************)
\* list(set(SID_TO_MACHINE.values())): each machine once, in no stated order.
online_machines(sid_to_machine) == Range(sid_to_machine)

broadcast_online_status(conn, sid_to_machine) ==
    Msg("update_machine_status", conn,
        [onlineMachines |-> online_machines(sid_to_machine)])

\* int(v), and 0 where int raises ValueError or TypeError.
int_or_zero(v) ==
    IF v[1] = "num" THEN v[2]
    ELSE IF v[1] = "str" /\ v[2] \in DOMAIN Numeral THEN Numeral[v[2]].val
    ELSE 0

\* The ten terminal metrics; each has a `_manual` and a `_measured` field.
Metrics ==
    {"t1_crimp_height", "t1_insulation_height", "t1_crimp_width",
     "t1_insulation_width", "t1_pull_force",
     "t2_crimp_height", "t2_insulation_height", "t2_crimp_width",
     "t2_insulation_width", "t2_pull_force"}

ManualKey(metric) ==
    CASE metric = "t1_crimp_height" -> "t1_crimp_height_manual"
      [] metric = "t1_insulation_height" -> "t1_insulation_height_manual"
      [] metric = "t1_crimp_width" -> "t1_crimp_width_manual"
      [] metric = "t1_insulation_width" -> "t1_insulation_width_manual"
      [] metric = "t1_pull_force" -> "t1_pull_force_manual"
      [] metric = "t2_crimp_height" -> "t2_crimp_height_manual"
      [] metric = "t2_insulation_height" -> "t2_insulation_height_manual"
      [] metric = "t2_crimp_width" -> "t2_crimp_width_manual"
      [] metric = "t2_insulation_width" -> "t2_insulation_width_manual"
      [] metric = "t2_pull_force" -> "t2_pull_force_manual"

MeasuredKey(metric) ==
    CASE metric = "t1_crimp_height" -> "t1_crimp_height_measured"
      [] metric = "t1_insulation_height" -> "t1_insulation_height_measured"
      [] metric = "t1_crimp_width" -> "t1_crimp_width_measured"
      [] metric = "t1_insulation_width" -> "t1_insulation_width_measured"
      [] metric = "t1_pull_force" -> "t1_pull_force_measured"
      [] metric = "t2_crimp_height" -> "t2_crimp_height_measured"
      [] metric = "t2_insulation_height" -> "t2_insulation_height_measured"
      [] metric = "t2_crimp_width" -> "t2_crimp_width_measured"
      [] metric = "t2_insulation_width" -> "t2_insulation_width_measured"
      [] metric = "t2_pull_force" -> "t2_pull_force_measured"

\* entry.get('<metric>_manual') or entry.get('<metric>_measured')
resolved_metric(entry, metric) ==
    Or(Get(entry, ManualKey(metric), None), Get(entry, MeasuredKey(metric), None))

clean_entry(entry) ==
    [k \in Metrics |-> resolved_metric(entry, k)] @@
    [time_display |-> strftime_display(entry["datetime"]),
     worker_name |-> Get(entry, "operator_name", "N/A"),
     shift |-> Get(entry, "shift", "N/A"),
     machine_name |-> Get(entry, "machine_name", "N/A"),
     fg_part_no |-> Get(entry, "fg_part_no", "N/A"),
     cable_id |-> Get(entry, "cable_id", "N/A"),
     produced_qty |-> Get(entry, "produced_qty", Num(0)),
     produced_length |-> Get(entry, "produced_length", Num(0)),
     qty_produced_hours |-> Get(entry, "qty_produced_hours", Num(0)),
     t1_terminal_id |-> Get(entry, "t1_terminal_id", ""),
     t1_apl_no |-> Get(entry, "t1_apl_no", ""),
     t2_terminal_id |-> Get(entry, "t2_terminal_id", ""),
     t2_apl_no |-> Get(entry, "t2_apl_no", "")]

\* A slip that writes `=` for `+=`: the last quantity replaces the total.
add_total_overwrite(totals, machine, qty) ==
    IF \E i \in DOMAIN totals : totals[i].machine = machine
    THEN [i \in DOMAIN totals |->
            IF totals[i].machine = machine
            THEN [machine |-> machine, total_qty |-> qty]
            ELSE totals[i]]
    ELSE Append(totals, [machine |-> machine, total_qty |-> qty])

\* machine_qty_totals[machine] += qty, on a defaultdict(int) that keeps the
\* machines in the order they were first seen.
add_total(totals, machine, qty) ==
    IF \E i \in DOMAIN totals : totals[i].machine = machine
    THEN [i \in DOMAIN totals |->
            IF totals[i].machine = machine
            THEN [machine |-> machine, total_qty |-> totals[i].total_qty + qty]
            ELSE totals[i]]
    ELSE Append(totals, [machine |-> machine, total_qty |-> qty])

\* The loop of broadcast_data over log_to_send, as far as the totals go.
RECURSIVE machine_qty_totals(_)
machine_qty_totals(log_to_send) ==
    IF log_to_send = <<>> THEN <<>>
    ELSE LET entry == log_to_send[Len(log_to_send)]
         IN add_total(machine_qty_totals(SubSeq(log_to_send, 1, Len(log_to_send) - 1)),
                      Get(entry, "machine_name", "UNKNOWN"),
                      int_or_zero(Get(entry, "produced_qty", Num(0))))

\* Python's order of the machine names of the model.
MachineRank == "M1" :> 1 @@ "M2" :> 2

\* sorted(list(MACHINE_PLANS.keys()))
sorted_machines(names) ==
    CHOOSE s \in [1..Cardinality(names) -> names] :
        /\ Range(s) = names
        /\ \A i, j \in DOMAIN s : i < j => MachineRank[s[i]] < MachineRank[s[j]]

\* A slip that drops the default: the date text is passed on as given.
date_as_given(date_str, now) == date_str

\* The date text broadcast_data filters by: today's when none is given.
date_or_today(date_str, now) ==
    IF date_str = <<>> THEN strftime_date(now) ELSE date_str

\* The payload of update_dashboard.
dashboard_data(log, plans, stock, date_str, now) ==
    LET log_to_send == get_data_for_date(log, date_or_today(date_str, now))
    IN [log |-> [i \in DOMAIN log_to_send |-> clean_entry(log_to_send[i])],
        chart_data |-> machine_qty_totals(log_to_send),
        machines |-> sorted_machines(DOMAIN plans),
        initial_stock |-> stock]

broadcast_data(conn, log, plans, stock, date_str, now) ==
    Msg("update_dashboard", conn, dashboard_data(log, plans, stock, date_str, now))

(***************************************************************************)
(* The state after start-up.                                               *)
(***************************************************************************)
\* load_stock_data(): {} unless the file exists and holds JSON.
load_stock_data(file) == IF file.state = "json" THEN file.data ELSE <<>>

\* What the stock file may hold when the server starts.
StartFiles == {[state |-> "absent"]}

\* The inbound event the state is the result of.
Event(name, sid, data, now) == [event |-> name, sid |-> sid, data |-> data, now |-> now]

\* In `last`: the event read no clock.
NoClock == <<>>

Init ==
    /\ SUBMISSION_LOG = <<>>
    /\ MACHINE_PLANS = <<>>
    /\ SID_TO_MACHINE = <<>>
    /\ stock_file \in StartFiles
    /\ INITIAL_CABLE_STOCK = load_stock_data(stock_file)
    /\ connected = {}
    /\ rooms = [s \in Sids |-> {}]
    /\ outbox = <<>>
    /\ last = Event("start", "", <<>>, NoClock)

(***************************************************************************)
(* connect and disconnect.  The Socket.IO server enters a connection in    *)
(* its namespace before the connect handler runs, and drops it from every  *)
(* room when it disconnects; a closed connection receives nothing.         *)
(***************************************************************************)
handle_connect(sid, path, now) ==
    /\ sid \notin connected
    /\ connected' = connected \cup {sid}
    /\ rooms' = [rooms EXCEPT ![sid] = {}]
    /\ outbox' =
         IF path = "/dashboard"
         THEN <<broadcast_data(connected', SUBMISSION_LOG, MACHINE_PLANS,
                               INITIAL_CABLE_STOCK, strftime_date(now), now),
                broadcast_online_status(connected', SID_TO_MACHINE)>>
         ELSE <<>>
    /\ last' = Event("connect", sid, [path |-> path], now)
    /\ UNCHANGED <<stores, stock_file>>

\* A slip that forgets SID_TO_MACHINE.pop: the entry outlives the connection.
handle_disconnect_keeps_entry(sid) ==
    /\ sid \in connected
    /\ connected' = connected \ {sid}
    /\ rooms' = [rooms EXCEPT ![sid] = {}]
    /\ outbox' = IF sid \in DOMAIN SID_TO_MACHINE
                 THEN <<broadcast_online_status(connected', SID_TO_MACHINE)>>
                 ELSE <<>>
    /\ last' = Event("disconnect", sid, <<>>, NoClock)
    /\ UNCHANGED <<stores, stock_file>>

\* A slip that broadcasts the list it computed before the pop.
handle_disconnect_stale_list(sid) ==
    /\ sid \in connected
    /\ connected' = connected \ {sid}
    /\ rooms' = [rooms EXCEPT ![sid] = {}]
    /\ IF sid \in DOMAIN SID_TO_MACHINE
       THEN /\ SID_TO_MACHINE' = Remove(SID_TO_MACHINE, sid)
            /\ outbox' = <<broadcast_online_status(connected', SID_TO_MACHINE)>>
       ELSE /\ SID_TO_MACHINE' = SID_TO_MACHINE
            /\ outbox' = <<>>
    /\ last' = Event("disconnect", sid, <<>>, NoClock)
    /\ UNCHANGED <<SUBMISSION_LOG, MACHINE_PLANS, INITIAL_CABLE_STOCK, stock_file>>

handle_disconnect(sid) ==
    /\ sid \in connected
    /\ connected' = connected \ {sid}
    /\ rooms' = [rooms EXCEPT ![sid] = {}]
    /\ IF sid \in DOMAIN SID_TO_MACHINE
       THEN /\ SID_TO_MACHINE' = Remove(SID_TO_MACHINE, sid)
            /\ outbox' = <<broadcast_online_status(connected', SID_TO_MACHINE')>>
       ELSE /\ SID_TO_MACHINE' = SID_TO_MACHINE
            /\ outbox' = <<>>
    /\ last' = Event("disconnect", sid, <<>>, NoClock)
    /\ UNCHANGED <<SUBMISSION_LOG, MACHINE_PLANS, INITIAL_CABLE_STOCK, stock_file>>

(***************************************************************************)
(* submit_output                                                           *)
(***************************************************************************)
\* How the try block of handle_submit_output ends for `data`.
submit_outcome(data) ==
    IF "entry_date" \notin DOMAIN data THEN "KeyError_entry_date"
    ELSE IF "entry_time" \notin DOMAIN data THEN "KeyError_entry_time"
    ELSE IF ~(DateParses(data["entry_date"]) /\ TimeParses(data["entry_time"]))
         THEN "ValueError"
    ELSE "appended"

\* The entry the handler appends: data with its parsed 'datetime'.
submitted_entry(data) ==
    Put(data, "datetime", strptime_datetime(data["entry_date"], data["entry_time"]))

submission_failure(outcome) ==
    IF outcome = "KeyError_entry_date"
        THEN [success |-> FALSE, reason |-> <<"Missing data field", "entry_date">>]
    ELSE IF outcome = "KeyError_entry_time"
        THEN [success |-> FALSE, reason |-> <<"Missing data field", "entry_time">>]
    ELSE [success |-> FALSE, reason |-> <<"Invalid data format", "time data">>]

\* A slip that appends before parsing: whatever was sent is stored.
log_after_submit_append_first(log, data) ==
    Append(log, IF submit_outcome(data) = "appended" THEN submitted_entry(data) ELSE data)

\* A slip that keeps the store sorted, newest first, instead of appending.
log_after_submit_sorted(log, data) ==
    IF submit_outcome(data) = "appended" THEN InsertDesc(submitted_entry(data), log) ELSE log

\* SUBMISSION_LOG after the try block: the append is reached only when
\* strptime has returned.
log_after_submit(log, data) ==
    IF submit_outcome(data) = "appended" THEN Append(log, submitted_entry(data)) ELSE log

\* A slip that leaves out room=request.sid: the acknowledgment is broadcast.
handle_submit_output_acks_all(sid, data) ==
    /\ sid \in connected
    /\ submit_outcome(data) = "appended" => Len(SUBMISSION_LOG) < MaxLog
    /\ SUBMISSION_LOG' = log_after_submit(SUBMISSION_LOG, data)
    /\ outbox' =
         IF submit_outcome(data) = "appended"
         THEN <<broadcast_data(connected, SUBMISSION_LOG', MACHINE_PLANS,
                               INITIAL_CABLE_STOCK,
                               strftime_date(submitted_entry(data)["datetime"]),
                               NoClock),
                Msg("submission_success", connected, [success |-> TRUE])>>
         ELSE <<Msg("submission_success", connected,
                    submission_failure(submit_outcome(data)))>>
    /\ last' = Event("submit_output", sid, data, NoClock)
    /\ UNCHANGED <<MACHINE_PLANS, SID_TO_MACHINE, INITIAL_CABLE_STOCK, stock_file,
                   connected, rooms>>

handle_submit_output(sid, data) ==
    /\ sid \in connected
    /\ submit_outcome(data) = "appended" => Len(SUBMISSION_LOG) < MaxLog
    /\ SUBMISSION_LOG' = log_after_submit(SUBMISSION_LOG, data)
    /\ outbox' =
         IF submit_outcome(data) = "appended"
         THEN <<broadcast_data(connected, SUBMISSION_LOG', MACHINE_PLANS,
                               INITIAL_CABLE_STOCK,
                               strftime_date(submitted_entry(data)["datetime"]),
                               NoClock),
                Msg("submission_success", InRoom(connected, rooms, sid),
                    [success |-> TRUE])>>
         ELSE <<Msg("submission_success", InRoom(connected, rooms, sid),
                    submission_failure(submit_outcome(data)))>>
    /\ last' = Event("submit_output", sid, data, NoClock)
    /\ UNCHANGED <<MACHINE_PLANS, SID_TO_MACHINE, INITIAL_CABLE_STOCK, stock_file,
                   connected, rooms>>

(***************************************************************************)
(* join_machine_room                                                       *)
(***************************************************************************)
\* A slip that addresses the join's plan and confirmation to the machine's
\* room instead of the joining connection.
handle_join_machine_room_to_room(sid, data) ==
    LET machine_name == Get(data, "machineName", "")
    IN /\ sid \in connected
       /\ IF machine_name = ""
          THEN /\ outbox' = <<Msg("join_confirm", InRoom(connected, rooms, sid),
                                  [success |-> FALSE,
                                   reason |-> <<"Missing machine name.">>])>>
               /\ UNCHANGED <<SID_TO_MACHINE, rooms>>
          ELSE /\ SID_TO_MACHINE' = Put(SID_TO_MACHINE, sid, machine_name)
               /\ rooms' = [rooms EXCEPT ![sid] = @ \cup {machine_name}]
               /\ outbox' =
                    <<broadcast_online_status(connected, SID_TO_MACHINE'),
                      Msg("update_worker_plan", InRoom(connected, rooms', machine_name),
                          [plan |-> Get(MACHINE_PLANS, machine_name, <<>>),
                           machineName |-> machine_name]),
                      Msg("join_confirm", InRoom(connected, rooms', machine_name),
                          [success |-> TRUE, machineName |-> machine_name])>>
       /\ last' = Event("join_machine_room", sid, data, NoClock)
       /\ UNCHANGED <<SUBMISSION_LOG, MACHINE_PLANS, INITIAL_CABLE_STOCK, stock_file,
                      connected>>

handle_join_machine_room(sid, data) ==
    LET machine_name == Get(data, "machineName", "")
    IN /\ sid \in connected
       /\ IF machine_name = ""
          THEN /\ outbox' = <<Msg("join_confirm", InRoom(connected, rooms, sid),
                                  [success |-> FALSE,
                                   reason |-> <<"Missing machine name.">>])>>
               /\ UNCHANGED <<SID_TO_MACHINE, rooms>>
          ELSE /\ SID_TO_MACHINE' = Put(SID_TO_MACHINE, sid, machine_name)
               /\ rooms' = [rooms EXCEPT ![sid] = @ \cup {machine_name}]
               /\ outbox' =
                    <<broadcast_online_status(connected, SID_TO_MACHINE'),
                      Msg("update_worker_plan", InRoom(connected, rooms', sid),
                          [plan |-> Get(MACHINE_PLANS, machine_name, <<>>),
                           machineName |-> machine_name]),
                      Msg("join_confirm", InRoom(connected, rooms', sid),
                          [success |-> TRUE, machineName |-> machine_name])>>
       /\ last' = Event("join_machine_room", sid, data, NoClock)
       /\ UNCHANGED <<SUBMISSION_LOG, MACHINE_PLANS, INITIAL_CABLE_STOCK, stock_file,
                      connected>>

(***************************************************************************)
(* mark_plan_complete                                                      *)
(***************************************************************************)
\* Whether a plan has a line with this id.
has_line(plan, line_id) ==
    \E i \in DOMAIN plan : Get(plan[i], "line_id", <<>>) = line_id

\* A slip that loses the comparison: every line of the plan is completed.
mark_every(plan, line_id) ==
    [i \in DOMAIN plan |-> Put(plan[i], "status", "completed")]

\* The loop over the plan: the first item with the line id becomes
\* 'completed', then break; a plan without the id is left as it is.
mark_first(plan, line_id) ==
    IF has_line(plan, line_id)
    THEN LET first == CHOOSE i \in DOMAIN plan :
                        /\ Get(plan[i], "line_id", <<>>) = line_id
                        /\ \A j \in 1..(i - 1) : Get(plan[j], "line_id", <<>>) # line_id
         IN [plan EXCEPT ![first] = Put(@, "status", "completed")]
    ELSE plan

handle_mark_plan_complete(sid, data) ==
    LET line_id == Get(data, "lineId", <<>>)
        machine_name == Get(data, "machineName", "")
    IN /\ sid \in connected
       /\ IF line_id = <<>> \/ machine_name = ""
          THEN /\ outbox' = <<>>
               /\ MACHINE_PLANS' = MACHINE_PLANS
          ELSE IF machine_name \in DOMAIN MACHINE_PLANS
          THEN /\ MACHINE_PLANS' =
                    [MACHINE_PLANS EXCEPT
                        ![machine_name] = mark_first(@, line_id)]
               /\ outbox' =
                    <<Msg("update_worker_plan",
                          InRoom(connected, rooms, machine_name),
                          [plan |-> MACHINE_PLANS'[machine_name],
                           machineName |-> machine_name])>>
          ELSE /\ outbox' = <<>>
               /\ MACHINE_PLANS' = MACHINE_PLANS
       /\ last' = Event("mark_plan_complete", sid, data, NoClock)
       /\ UNCHANGED <<SUBMISSION_LOG, SID_TO_MACHINE, INITIAL_CABLE_STOCK, stock_file,
                      connected, rooms>>

(***************************************************************************)
(* send_live_message                                                       *)
(***************************************************************************)
\* A slip that takes every machine for online.
is_online_always(sid_to_machine, target_machine) == TRUE

is_online(sid_to_machine, target_machine) == target_machine \in Range(sid_to_machine)

handle_send_live_message(sid, data) ==
    LET target_machine == Get(data, "targetMachine", "")
        message_text == Get(data, "messageText", "")
    IN /\ sid \in connected
       /\ outbox' =
            IF target_machine = "" \/ message_text = ""
            THEN <<Msg("message_sent_confirm", InRoom(connected, rooms, sid),
                       [success |-> FALSE, machineName |-> target_machine,
                        reason |-> <<"Missing target machine or message text.">>])>>
            ELSE IF is_online(SID_TO_MACHINE, target_machine)
            THEN <<Msg("live_message", InRoom(connected, rooms, target_machine),
                       [message |-> message_text]),
                   Msg("message_sent_confirm", InRoom(connected, rooms, sid),
                       [success |-> TRUE, machineName |-> target_machine])>>
            ELSE <<Msg("message_sent_confirm", InRoom(connected, rooms, sid),
                       [success |-> FALSE, machineName |-> target_machine,
                        reason |-> <<"Machine is currently offline or not connected.">>])>>
       /\ last' = Event("send_live_message", sid, data, NoClock)
       /\ UNCHANGED <<stores, stock_file, connected, rooms>>

(***************************************************************************)
(* request_dashboard_data                                                  *)
(***************************************************************************)
\* A slip that sorts the store itself, newest first, before it is read.
handle_request_sorts_store(sid, data, now) ==
    /\ sid \in connected
    /\ SUBMISSION_LOG' = SortDesc(SUBMISSION_LOG)
    /\ outbox' = <<broadcast_data(connected, SUBMISSION_LOG', MACHINE_PLANS,
                                  INITIAL_CABLE_STOCK, Get(data, "date", <<>>), now)>>
    /\ last' = Event("request_dashboard_data", sid, data, now)
    /\ UNCHANGED <<MACHINE_PLANS, SID_TO_MACHINE, INITIAL_CABLE_STOCK, stock_file,
                   connected, rooms>>

handle_request_dashboard_data(sid, data, now) ==
    /\ sid \in connected
    /\ outbox' = <<broadcast_data(connected, SUBMISSION_LOG, MACHINE_PLANS,
                                  INITIAL_CABLE_STOCK, Get(data, "date", <<>>), now)>>
    /\ last' = Event("request_dashboard_data", sid, data, now)
    /\ UNCHANGED <<stores, stock_file, connected, rooms>>

(***************************************************************************)
(* The upload routes.  An uploaded file is its file name's extension,      *)
(* whether pandas can read it, and the sheet read_excel returns: its       *)
(* column names and its rows, a row being a dict from column to cell.  A   *)
(* cell is a string Str(s) or empty (None, pandas' NaN).  The HTTP         *)
(* response of a route is not part of the state.                           *)
(***************************************************************************)
\* df.head(10)
PlanCap == 10

\* df.fillna('').astype(str) on one cell.
cell_text(v) == IF v = None THEN "" ELSE v[2]

\* enumerate(plan_data_raw): row i (from 1) with its line_id and status.
\* The line id f"{target_machine}_{i}" is the pair <<target_machine, i>>.
plan_line(target_machine, i, row) ==
    Put(Put([c \in DOMAIN row |-> cell_text(row[c])],
            "line_id", <<target_machine, i>>),
        "status", "pending")

\* A slip that forgets df.head(10): every row of the sheet becomes a line.
plan_data_uncapped(target_machine, rows) ==
    [i \in 1..Len(rows) |-> plan_line(target_machine, i, rows[i])]

plan_data_processed(target_machine, rows) ==
    LET n == IF Len(rows) < PlanCap THEN Len(rows) ELSE PlanCap
    IN [i \in 1..n |-> plan_line(target_machine, i, rows[i])]

excel_name(file) == file.ext \in {".xlsx", ".xls"}

\* How upload_plan ends for `form`: 400, 500 or 200.
upload_plan_status(form) ==
    IF Get(form, "target_machine", "") = "" \/ "plan_sheet" \notin DOMAIN form THEN 400
    ELSE IF ~excel_name(form["plan_sheet"]) THEN 400
    ELSE IF ~form["plan_sheet"].readable THEN 500
    ELSE 200

\* A slip that merges: a new line takes the status of the old line that has
\* its line id.
upload_plan_keeps_status(form, now) ==
    /\ IF upload_plan_status(form) = 200
       THEN LET target_machine == form["target_machine"]
                old == Get(MACHINE_PLANS, target_machine, <<>>)
                new == plan_data_processed(target_machine, form["plan_sheet"].rows)
                plan == [i \in DOMAIN new |->
                            IF i \in DOMAIN old
                            THEN Put(new[i], "status", old[i]["status"])
                            ELSE new[i]]
            IN /\ MACHINE_PLANS' = Put(MACHINE_PLANS, target_machine, plan)
               /\ outbox' =
                    <<Msg("update_worker_plan",
                          InRoom(connected, rooms, target_machine),
                          [plan |-> plan, machineName |-> target_machine]),
                      broadcast_data(connected, SUBMISSION_LOG, MACHINE_PLANS',
                                     INITIAL_CABLE_STOCK, strftime_date(now), now)>>
       ELSE /\ MACHINE_PLANS' = MACHINE_PLANS
            /\ outbox' = <<>>
    /\ last' = Event("upload_plan", "http", form, now)
    /\ UNCHANGED <<SUBMISSION_LOG, SID_TO_MACHINE, INITIAL_CABLE_STOCK, stock_file,
                   connected, rooms>>

upload_plan(form, now) ==
    /\ IF upload_plan_status(form) = 200
       THEN LET target_machine == form["target_machine"]
                plan == plan_data_processed(target_machine, form["plan_sheet"].rows)
            IN /\ MACHINE_PLANS' = Put(MACHINE_PLANS, target_machine, plan)
               /\ outbox' =
                    <<Msg("update_worker_plan",
                          InRoom(connected, rooms, target_machine),
                          [plan |-> plan, machineName |-> target_machine]),
                      broadcast_data(connected, SUBMISSION_LOG, MACHINE_PLANS',
                                     INITIAL_CABLE_STOCK, strftime_date(now), now)>>
       ELSE /\ MACHINE_PLANS' = MACHINE_PLANS
            /\ outbox' = <<>>
    /\ last' = Event("upload_plan", "http", form, now)
    /\ UNCHANGED <<SUBMISSION_LOG, SID_TO_MACHINE, INITIAL_CABLE_STOCK, stock_file,
                   connected, rooms>>

\* float(v), and 0.0 where float raises ValueError or TypeError.
float_or_zero(v) ==
    IF v[1] = "num" THEN v[2]
    ELSE IF v[1] = "str" /\ v[2] \in DOMAIN Numeral THEN Numeral[v[2]].val
    ELSE 0

\* The loop of upload_stock over df.iterrows(): a later row of a cable id
\* overwrites an earlier one, a row with an empty cable id is skipped.
RECURSIVE new_stock_data(_)
new_stock_data(rows) ==
    IF rows = <<>> THEN <<>>
    ELSE LET row == rows[Len(rows)]
             before == new_stock_data(SubSeq(rows, 1, Len(rows) - 1))
         IN IF row["Cable ID"] # ""
            THEN Put(before, row["Cable ID"], float_or_zero(row["Initial Stock (M)"]))
            ELSE before

\* How upload_stock ends for `files`.
upload_stock_status(files) ==
    IF "stock_sheet" \notin DOMAIN files THEN 400
    ELSE IF ~excel_name(files["stock_sheet"]) THEN 400
    ELSE IF ~files["stock_sheet"].readable THEN 500
    ELSE IF ~({"Cable ID", "Initial Stock (M)"} \subseteq files["stock_sheet"].columns)
         THEN 400
    ELSE 200

\* save_stock_data(data)
save_stock_data(data) == [state |-> "json", data |-> data]

\* A slip that rebuilds the plan registry on a stock upload: the plans are
\* lost with the old stock table.
upload_stock_clears_plans(files, now) ==
    /\ IF upload_stock_status(files) = 200
       THEN /\ INITIAL_CABLE_STOCK' = new_stock_data(files["stock_sheet"].rows)
            /\ stock_file' = save_stock_data(INITIAL_CABLE_STOCK')
            /\ MACHINE_PLANS' = <<>>
            /\ outbox' =
                 <<broadcast_data(connected, SUBMISSION_LOG, MACHINE_PLANS',
                                  INITIAL_CABLE_STOCK', strftime_date(now), now)>>
       ELSE /\ UNCHANGED <<INITIAL_CABLE_STOCK, stock_file, MACHINE_PLANS>>
            /\ outbox' = <<>>
    /\ last' = Event("upload_stock", "http", files, now)
    /\ UNCHANGED <<SUBMISSION_LOG, SID_TO_MACHINE, connected, rooms>>

upload_stock(files, now) ==
    /\ IF upload_stock_status(files) = 200
       THEN /\ INITIAL_CABLE_STOCK' = new_stock_data(files["stock_sheet"].rows)
            /\ stock_file' = save_stock_data(INITIAL_CABLE_STOCK')
            /\ outbox' =
                 <<broadcast_data(connected, SUBMISSION_LOG, MACHINE_PLANS,
                                  INITIAL_CABLE_STOCK', strftime_date(now), now)>>
       ELSE /\ UNCHANGED <<INITIAL_CABLE_STOCK, stock_file>>
            /\ outbox' = <<>>
    /\ last' = Event("upload_stock", "http", files, now)
    /\ UNCHANGED <<SUBMISSION_LOG, MACHINE_PLANS, SID_TO_MACHINE, connected, rooms>>

(***************************************************************************)
(* export_data: the rows of the CSV file, oldest first.  The response is   *)
(* 204 with no body when there is no row.                                  *)
(***************************************************************************)
\* sorted(SUBMISSION_LOG, key=datetime): a stable sort, oldest first.
RECURSIVE InsertAsc(_, _)
InsertAsc(e, s) ==
    IF s = <<>> THEN <<e>>
    ELSE IF DtKey(Head(s)["datetime"]) <= DtKey(e["datetime"])
         THEN <<Head(s)>> \o InsertAsc(e, Tail(s))
         ELSE <<e>> \o s

RECURSIVE SortAsc(_)
SortAsc(s) ==
    IF s = <<>> THEN <<>>
    ELSE InsertAsc(s[Len(s)], SortAsc(SubSeq(s, 1, Len(s) - 1)))

\* The CSV column of a terminal metric.
ExportColumn(metric) ==
    CASE metric = "t1_crimp_height" -> "T1 Crimp H"
      [] metric = "t1_insulation_height" -> "T1 Insul H"
      [] metric = "t1_crimp_width" -> "T1 Crimp W"
      [] metric = "t1_insulation_width" -> "T1 Insul W"
      [] metric = "t1_pull_force" -> "T1 Pull F (N)"
      [] metric = "t2_crimp_height" -> "T2 Crimp H"
      [] metric = "t2_insulation_height" -> "T2 Insul H"
      [] metric = "t2_crimp_width" -> "T2 Crimp W"
      [] metric = "t2_insulation_width" -> "T2 Insul W"
      [] metric = "t2_pull_force" -> "T2 Pull F (N)"

\* dt.strftime('%H:%M:%S')
strftime_time(dt) == <<Padded(dt[4], 2), Padded(dt[5], 2), Padded(0, 2)>>

export_row(entry) ==
    [c \in {ExportColumn(k) : k \in Metrics} |->
        resolved_metric(entry, CHOOSE k \in Metrics : ExportColumn(k) = c)] @@
    ("Date" :> strftime_date(entry["datetime"]) @@
     "Time" :> strftime_time(entry["datetime"]) @@
     "Shift" :> Get(entry, "shift", "") @@
     "Worker Name" :> Get(entry, "operator_name", "") @@
     "Machine Name" :> Get(entry, "machine_name", "") @@
     "FG Part Number" :> Get(entry, "fg_part_no", "") @@
     "Cable Identification" :> Get(entry, "cable_id", "") @@
     "Produced Qty" :> Get(entry, "produced_qty", Num(0)) @@
     "Produced Length" :> Get(entry, "produced_length", Num(0)) @@
     "QTY PRODUCED HOURS" :> Get(entry, "qty_produced_hours", Num(0)) @@
     "T1 Part No" :> Get(entry, "t1_terminal_id", "") @@
     "T1 APL NO" :> Get(entry, "t1_apl_no", "") @@
     "T2 Part No" :> Get(entry, "t2_terminal_id", "") @@
     "T2 APL NO" :> Get(entry, "t2_apl_no", ""))

export_rows(log) ==
    LET sorted_log == SortAsc(SelectSeq(log, LAMBDA entry : "datetime" \in DOMAIN entry))
    IN [i \in DOMAIN sorted_log |-> export_row(sorted_log[i])]

(***************************************************************************)
(* The environment: the inputs clients send.                               *)
(***************************************************************************)
\* The dates datetime.now() may fall on.
Todays == {<<2024, 5, 1>>, <<2024, 5, 2>>}

\* The clock values an event sees: one of Todays if it reads the clock.
ClockRead(reads) == IF reads THEN Todays ELSE {NoClock}

\* request.path of a connecting client.
Paths == {"/dashboard", "/worker"}

Day1 == <<"2024", "05", "01">>
Day1Unpadded == <<"2024", "5", "1">>
Day2 == <<"2024", "05", "02">>
NoSuchMonth == <<"2024", "13", "01">>
NoSuchDay == <<"2024", "02", "30">>
DayFirst == <<"01", "05", "2024">>
Morning == <<"09", "00">>
Evening == <<"17", "30">>
NoSuchMinute == <<"09", "61">>

Entry(date, time, machine, qty, length, hours) ==
    [entry_date |-> date, entry_time |-> time, machine_name |-> machine,
     produced_qty |-> qty, produced_length |-> length, qty_produced_hours |-> hours]

\* Submissions with positive quantity, length and hours and a date and time.
ValidPayloads ==
    { Entry(Day1, Morning, "M1", Num(10), Num(5), Num(1))
        @@ [t1_crimp_height_manual |-> Num(3), t1_crimp_height_measured |-> Num(4)],
      Entry(Day1, Evening, "M1", Num(15), Num(5), Num(1))
        @@ [t2_pull_force_measured |-> Num(4)],
      Entry(Day2, Morning, "M2", Str("abc"), Num(5), Num(1))
        @@ [t1_crimp_height_manual |-> Num(0), t1_crimp_height_measured |-> Num(4)],
      Remove(Entry(Day1Unpadded, Evening, "", Str("15"), Num(5), Num(1)),
             "machine_name") }

\* Submissions with a quantity, length or hours that is not positive.
NonPositivePayloads ==
    { Entry(Day1, Morning, "M2", Num(0), Num(5), Num(1)),
      Entry(Day2, Evening, "M1", Num(10), Num(0), Num(1)),
      Entry(Day1, Morning, "M1", Num(10), Num(5), Num(-1)) }

\* Submissions with a missing or unparseable date or time.
UndatedPayloads ==
    { Remove(Entry(Day1, Morning, "M1", Num(10), Num(5), Num(1)), "entry_date"),
      Remove(Entry(Day1, Morning, "M1", Num(10), Num(5), Num(1)), "entry_time"),
      Entry(NoSuchDay, Morning, "M1", Num(10), Num(5), Num(1)),
      Entry(Day1, NoSuchMinute, "M1", Num(10), Num(5), Num(1)) }

StorePayloads == ValidPayloads \cup NonPositivePayloads \cup UndatedPayloads

StoreRequests ==
    { <<>> } \cup
    { [date |-> d] : d \in {Day1, Day1Unpadded, Day2, NoSuchMonth, NoSuchDay, DayFirst} }

JoinInputs == { <<>> } \cup { [machineName |-> m] : m \in Machines }

\* Line 1 is a line of every uploaded plan, line 3 of none.
MarkInputs ==
    { [machineName |-> m, lineId |-> <<m, i>>] : m \in Machines, i \in {1, 3} }
    \cup { [machineName |-> "M1"] }

MessageInputs ==
    { [targetMachine |-> m, messageText |-> "hi"] : m \in Machines }
    \cup { [messageText |-> "hi"] }

PlanSheet == [ext |-> ".xlsx", readable |-> TRUE,
              rows |-> << [Part |-> Str("P1"), Qty |-> Str("100")],
                          [Part |-> Str("P2"), Qty |-> None] >>]

PlanForms ==
    { [target_machine |-> m, plan_sheet |-> PlanSheet] : m \in Machines }
    \cup { [plan_sheet |-> PlanSheet],
           [target_machine |-> "M1",
            plan_sheet |-> [ext |-> ".csv", readable |-> TRUE, rows |-> <<>>]] }

\* A sheet of one row more than df.head(10) keeps, and a sheet of other
\* columns than PlanSheet's.
RowNames == <<"R1", "R2", "R3", "R4", "R5", "R6", "R7", "R8", "R9", "R10", "R11">>

LongSheet == [ext |-> ".xlsx", readable |-> TRUE,
              rows |-> [i \in 1..(PlanCap + 1) |-> [Part |-> Str(RowNames[i])]]]

OtherSheet == [ext |-> ".xlsx", readable |-> TRUE,
               rows |-> << [Note |-> Str("N1")] >>]

SheetForms ==
    { [target_machine |-> m, plan_sheet |-> sheet] :
          m \in Machines, sheet \in {PlanSheet, LongSheet, OtherSheet} }
    \cup { [target_machine |-> "M1",
            plan_sheet |-> [ext |-> ".xlsx", readable |-> FALSE, rows |-> <<>>]] }

StockRow(cable_id, stock) == "Cable ID" :> cable_id @@ "Initial Stock (M)" :> stock

StockSheet == [ext |-> ".xlsx", readable |-> TRUE,
               columns |-> {"Cable ID", "Initial Stock (M)"},
               rows |-> << StockRow("CB1", Num(10)), StockRow("", Num(5)),
                           StockRow("CB2", Str("n/a")) >>]

StockFiles ==
    { [stock_sheet |-> StockSheet],
      [stock_sheet |-> [ext |-> ".xlsx", readable |-> TRUE,
                        columns |-> {"Cable ID"}, rows |-> <<>>]] }

\* The inputs of the whole-program specification: one or two of each kind.
SubmitInputs ==
    { Entry(Day1, Morning, "M1", Num(10), Num(5), Num(1)),
      Remove(Entry(Day1, Morning, "M1", Num(10), Num(5), Num(1)), "entry_date") }

RequestInputs == { <<>>, [date |-> NoSuchMonth] }

FewJoinInputs == { [machineName |-> m] : m \in Machines }

FewMarkInputs == { [machineName |-> "M1", lineId |-> <<"M1", i>>] : i \in {1, 3} }

FewMessageInputs == { [targetMachine |-> "M1", messageText |-> "hi"] }

FewPlanForms == { [target_machine |-> "M1", plan_sheet |-> PlanSheet] }

FewStockFiles == { [stock_sheet |-> StockSheet] }

(***************************************************************************)
(* The events, and the specifications.                                     *)
(***************************************************************************)
Connect ==
    \E sid \in Sids, path \in Paths :
        \E now \in ClockRead(path = "/dashboard") : handle_connect(sid, path, now)

Disconnect == \E sid \in Sids : handle_disconnect(sid)

Submit(inputs) == \E sid \in Sids, data \in inputs : handle_submit_output(sid, data)

Join(inputs) == \E sid \in Sids, data \in inputs : handle_join_machine_room(sid, data)

MarkComplete(inputs) ==
    \E sid \in Sids, data \in inputs : handle_mark_plan_complete(sid, data)

SendMessage(inputs) ==
    \E sid \in Sids, data \in inputs : handle_send_live_message(sid, data)

Request(inputs) ==
    \E sid \in Sids, data \in inputs :
        \E now \in ClockRead(Get(data, "date", <<>>) = <<>>) :
            handle_request_dashboard_data(sid, data, now)

UploadPlan(forms) ==
    \E form \in forms :
        \E now \in ClockRead(upload_plan_status(form) = 200) : upload_plan(form, now)

UploadStock(uploads) ==
    \E files \in uploads :
        \E now \in ClockRead(upload_stock_status(files) = 200) : upload_stock(files, now)

\* The whole program, every event with one or two inputs of each kind.
Next ==
    \/ Connect
    \/ Disconnect
    \/ Submit(SubmitInputs)
    \/ Join(FewJoinInputs)
    \/ MarkComplete(FewMarkInputs)
    \/ SendMessage(FewMessageInputs)
    \/ Request(RequestInputs)
    \/ UploadPlan(FewPlanForms)
    \/ UploadStock(FewStockFiles)

Spec == Init /\ [][Next]_vars

\* The submission store and the dashboard view of it, under every kind of
\* submission and date filter (no plans, rooms or stock uploads).
NextStore ==
    \/ Connect
    \/ Disconnect
    \/ Submit(StorePayloads)
    \/ Request(StoreRequests)

SpecStore == Init /\ [][NextStore]_vars

\* Presence, rooms and plans, under every kind of join, mark-complete,
\* message and plan upload (no submissions or stock uploads).
NextRooms ==
    \/ Connect
    \/ Disconnect
    \/ Join(JoinInputs)
    \/ MarkComplete(MarkInputs)
    \/ SendMessage(MessageInputs)
    \/ UploadPlan(PlanForms)

SpecRooms == Init /\ [][NextRooms]_vars

\* The plan registry and the machine list of the dashboard, under sheets of
\* every length and repeated uploads (no submissions, joins or messages).
NextPlans ==
    \/ Connect
    \/ Disconnect
    \/ MarkComplete(MarkInputs)
    \/ UploadPlan(SheetForms)
    \/ Request({ <<>> })

SpecPlans == Init /\ [][NextPlans]_vars

(***************************************************************************)
(* The claims.                                                             *)
(***************************************************************************)
\* The messages of the last event that carry event name `ev`.
Emitted(ev) == {i \in DOMAIN outbox : outbox[i].event = ev}

\* A submitted number that is <= 0.
NotPositive(data, field) ==
    field \in DOMAIN data /\ data[field][1] = "num" /\ data[field][2] <= 0

NonPositiveSubmission(data) ==
    \/ NotPositive(data, "produced_qty")
    \/ NotPositive(data, "produced_length")
    \/ NotPositive(data, "qty_produced_hours")

\* C1: a submit event whose produced quantity, produced length or worked
\* hours is <= 0 is rejected: the submission store is the same after the
\* event as before it.
C1_NonPositiveRejected ==
    [][(last'.event = "submit_output" /\ NonPositiveSubmission(last'.data))
          => SUBMISSION_LOG' = SUBMISSION_LOG]_vars

\* The machine room a message of the last event is addressed to, if any:
\* live_message goes to the target's room, update_worker_plan to the
\* machine's room when a plan upload or a mark-complete sends it.
RoomMessages ==
    {i \in DOMAIN outbox :
        \/ outbox[i].event = "live_message"
        \/ /\ outbox[i].event = "update_worker_plan"
           /\ last.event \in {"upload_plan", "mark_plan_complete"}}

RoomOf(i) ==
    IF outbox[i].event = "live_message" THEN last.data["targetMachine"]
    ELSE outbox[i].data.machineName

PresentOn(c, m) == c \in DOMAIN SID_TO_MACHINE /\ SID_TO_MACHINE[c] = m

\* C2: a message addressed to machine m's room is received only by
\* connections whose current presence entry is m.
C2_RoomMessagesOnlyToPresent ==
    \A i \in RoomMessages : \A c \in outbox[i].to : PresentOn(c, RoomOf(i))

\* A mark-complete input whose line id is no line of the machine's plan.
UnknownLine(plans, data) ==
    /\ "machineName" \in DOMAIN data /\ "lineId" \in DOMAIN data
    /\ \/ data["machineName"] \notin DOMAIN plans
       \/ \A i \in DOMAIN plans[data["machineName"]] :
             plans[data["machineName"]][i]["line_id"] # data["lineId"]

\* C3: a mark-complete event whose line id matches no line of the named
\* machine's plan (or whose machine has no plan) is a no-op: every plan is
\* unchanged and no update_worker_plan message reaches any connection.
C3_UnknownLineIsNoOp ==
    [][(last'.event = "mark_plan_complete" /\ UnknownLine(MACHINE_PLANS, last'.data))
          => /\ MACHINE_PLANS' = MACHINE_PLANS
             /\ \A i \in DOMAIN outbox' :
                   ~(outbox'[i].event = "update_worker_plan" /\ outbox'[i].to # {})]_vars

\* C4: when a dashboard connects, the snapshot and the online-machine list
\* go to that connection only: no other client receives an update_dashboard
\* or update_machine_status message as a result of the connect event.
C4_ConnectPushesToNewcomerOnly ==
    last.event = "connect" =>
        \A i \in Emitted("update_dashboard") \cup Emitted("update_machine_status") :
            outbox[i].to \subseteq {last.sid}

\* A submission whose entry date or entry time is missing or does not parse.
UndatedSubmission(data) ==
    \/ "entry_date" \notin DOMAIN data
    \/ "entry_time" \notin DOMAIN data
    \/ ~DateParses(data["entry_date"])
    \/ ~TimeParses(data["entry_time"])

\* C5: a submit event with a missing or unparseable entry date or time
\* changes none of the stores, broadcasts no snapshot, and sends the failure
\* reason to the submitting connection and to no other.
C5_UndatedSubmissionFails ==
    [][(last'.event = "submit_output" /\ UndatedSubmission(last'.data))
          => /\ UNCHANGED stores
             /\ Len(outbox') = 1
             /\ outbox'[1].event = "submission_success"
             /\ outbox'[1].data.success = FALSE
             /\ "reason" \in DOMAIN outbox'[1].data
             /\ outbox'[1].to = {last'.sid}]_vars

\* C5's case: the submission was refused while another client was connected
\* and the store held an entry.
C5_Witness ==
    /\ last.event = "submit_output" /\ UndatedSubmission(last.data)
    /\ "entry_date" \in DOMAIN last.data /\ ~DateParses(last.data["entry_date"])
    /\ connected = Sids
    /\ Len(SUBMISSION_LOG) = 1
    /\ outbox[1].to = {last.sid}

\* The stored entries that have a timestamp on `date`, in arrival order.
EntriesOn(log, date) ==
    SelectSeq(log, LAMBDA e : "datetime" \in DOMAIN e
                              /\ <<e["datetime"][1], e["datetime"][2], e["datetime"][3]>> = date)

Count(x, s) == Cardinality({i \in DOMAIN s : s[i] = x})

\* s and t hold the same entries, each as often in one as in the other.
SameEntries(s, t) ==
    /\ Len(s) = Len(t)
    /\ \A x \in Range(s) \cup Range(t) : Count(x, s) = Count(x, t)

\* Newest first: no entry is older than the one after it.
NewestFirst(s) ==
    \A i \in 1..(Len(s) - 1) : DtKey(s[i]["datetime"]) >= DtKey(s[i + 1]["datetime"])

\* The datetime a displayed time "%Y-%m-%d %H:%M:%S" denotes.
DisplayedKey(text) ==
    DtKey(<<Numeral[text[1]].val, Numeral[text[2]].val, Numeral[text[3]].val,
            Numeral[text[4]].val, Numeral[text[5]].val>>)

\* The log of a snapshot shows exactly the stored entries of `date`, newest
\* first.
ShowsEntriesOn(shown, log, date) ==
    /\ SameEntries(shown, [i \in DOMAIN EntriesOn(log, date) |->
                              clean_entry(EntriesOn(log, date)[i])])
    /\ \A i \in 1..(Len(shown) - 1) :
          DisplayedKey(shown[i].time_display) >= DisplayedKey(shown[i + 1].time_display)

\* The last event was a dashboard-data request that carried no date.
UndatedRequest ==
    last.event = "request_dashboard_data" /\ Get(last.data, "date", <<>>) = <<>>

\* C6 as stated: a query with no date, be it get_data_for_date(None) or a
\* dashboard-data request without a date, returns only the entries of the
\* current date, newest first.
C6_NoDateMeansToday ==
    UndatedRequest =>
        /\ ShowsEntriesOn(outbox[1].data.log, SUBMISSION_LOG, last.now)
        /\ SameEntries(get_data_for_date(SUBMISSION_LOG, <<>>),
                       EntriesOn(SUBMISSION_LOG, last.now))

\* C6, amended: a dashboard-data request that carries no date answers with
\* a snapshot of exactly the entries of the current date, newest first;
\* get_data_for_date itself, given no date, returns the whole log as stored.
C6_NoDateRequestMeansToday ==
    /\ UndatedRequest =>
          ShowsEntriesOn(outbox[1].data.log, SUBMISSION_LOG, last.now)
    /\ get_data_for_date(SUBMISSION_LOG, <<>>) = SUBMISSION_LOG

\* C6's case: a request without a date while the store holds an entry of
\* today and an entry of another day.
C6_Witness ==
    /\ UndatedRequest
    /\ Len(SUBMISSION_LOG) = 2
    /\ Len(EntriesOn(SUBMISSION_LOG, last.now)) = 1
    /\ Len(outbox[1].data.log) = 1

\* Date texts that strptime('%Y-%m-%d') reads, and some it does not.
WellFormedDates == {Day1, Day1Unpadded, Day2}
MalformedDates == {NoSuchMonth, NoSuchDay, DayFirst}

DateValue(text) == <<Numeral[text[1]].val, Numeral[text[2]].val, Numeral[text[3]].val>>

\* C7: for every well-formed date d the date-filtered query returns exactly
\* the stored entries whose timestamp is on d, each once, newest first.
C7_FilteredQuery ==
    \A d \in WellFormedDates :
        /\ SameEntries(get_data_for_date(SUBMISSION_LOG, d),
                       EntriesOn(SUBMISSION_LOG, DateValue(d)))
        /\ NewestFirst(get_data_for_date(SUBMISSION_LOG, d))

\* C7's case: the store holds two entries of one day, the older first, and
\* the dashboard asked for that day and was shown the newer first.
C7_Witness ==
    /\ last.event = "request_dashboard_data"
    /\ Get(last.data, "date", <<>>) = Day1
    /\ Len(SUBMISSION_LOG) = 2
    /\ Len(EntriesOn(SUBMISSION_LOG, DateValue(Day1))) = 2
    /\ DtKey(SUBMISSION_LOG[1]["datetime"]) < DtKey(SUBMISSION_LOG[2]["datetime"])
    /\ outbox[1].data.log[1] = clean_entry(SUBMISSION_LOG[2])

\* C8: a query whose date text is not a valid date fails open: it returns
\* the whole log, every stored entry whatever its date, and the dashboard
\* that asked is shown all of it.
C8_MalformedDateFailsOpen ==
    /\ \A d \in MalformedDates : get_data_for_date(SUBMISSION_LOG, d) = SUBMISSION_LOG
    /\ (last.event = "request_dashboard_data"
        /\ Get(last.data, "date", <<>>) \in MalformedDates)
          => outbox[1].data.log =
                [i \in DOMAIN SUBMISSION_LOG |-> clean_entry(SUBMISSION_LOG[i])]

\* C8's case: a request with a malformed date while the store holds entries
\* of two different days, and both are shown.
C8_Witness ==
    /\ last.event = "request_dashboard_data"
    /\ Get(last.data, "date", <<>>) \in MalformedDates
    /\ Len(SUBMISSION_LOG) = 2
    /\ DateOf(SUBMISSION_LOG[1]["datetime"]) # DateOf(SUBMISSION_LOG[2]["datetime"])
    /\ Len(outbox[1].data.log) = 2

\* The date of the snapshot the last event broadcast, where it has one: the
\* date of the entry a submit appended, the well-formed date a request
\* named, today for a request without a date and for a dashboard's connect.
SnapshotDates ==
    IF last.event = "submit_output" /\ Emitted("update_dashboard") # {}
        THEN {DateValue(last.data["entry_date"])}
    ELSE IF UndatedRequest THEN {last.now}
    ELSE IF last.event = "connect" /\ last.data["path"] = "/dashboard" THEN {last.now}
    ELSE IF last.event = "request_dashboard_data" /\ last.data["date"] \in WellFormedDates
        THEN {DateValue(last.data["date"])}
    ELSE {}

\* The machine an entry counts for, and the quantity it counts with.
MachineOf(e) == IF "machine_name" \in DOMAIN e THEN e["machine_name"] ELSE "UNKNOWN"

QuantityOf(e) ==
    IF "produced_qty" \notin DOMAIN e THEN 0
    ELSE IF e["produced_qty"][1] = "num" THEN e["produced_qty"][2]
    ELSE IF e["produced_qty"][1] = "str" /\ e["produced_qty"][2] \in DOMAIN Numeral
         THEN Numeral[e["produced_qty"][2]].val
    ELSE 0

RECURSIVE SumQuantity(_, _)
SumQuantity(entries, machine) ==
    IF entries = <<>> THEN 0
    ELSE (IF MachineOf(Head(entries)) = machine THEN QuantityOf(Head(entries)) ELSE 0)
         + SumQuantity(Tail(entries), machine)

\* C9: in every snapshot for date d the chart has exactly one pair per
\* machine with an entry on d, and its total is the sum of produced_qty over
\* that machine's entries on d, an unreadable or missing quantity being 0.
C9_ChartTotals ==
    \A d \in SnapshotDates :
        LET chart == outbox[1].data.chart_data
            entries == EntriesOn(SUBMISSION_LOG, d)
        IN /\ {chart[i].machine : i \in DOMAIN chart} = {MachineOf(e) : e \in Range(entries)}
           /\ \A i, j \in DOMAIN chart : chart[i].machine = chart[j].machine => i = j
           /\ \A i \in DOMAIN chart :
                 chart[i].total_qty = SumQuantity(entries, chart[i].machine)

\* C9's case: M1 submitted 10 and then 15 on one day, and the snapshot of
\* that day has the single pair {M1: 25}.
C9_Witness ==
    /\ last.event = "submit_output"
    /\ Len(SUBMISSION_LOG) = 2
    /\ SUBMISSION_LOG[1]["produced_qty"] = Num(10)
    /\ SUBMISSION_LOG[2]["produced_qty"] = Num(15)
    /\ outbox[1].data.chart_data = <<[machine |-> "M1", total_qty |-> 25]>>

\* C10: a machine is online, in the online-machine list and for message
\* routing, exactly when an open connection's presence entry names it.
C10_OnlineIffPresent ==
    \A m \in Machines :
        /\ m \in online_machines(SID_TO_MACHINE) <=> \E c \in connected : PresentOn(c, m)
        /\ is_online(SID_TO_MACHINE, m) <=> \E c \in connected : PresentOn(c, m)
        /\ \A i \in Emitted("update_machine_status") :
              m \in outbox[i].data.onlineMachines <=> \E c \in connected : PresentOn(c, m)

\* C10's case: c1 and c2 had both joined M1, c1 has left, and M1 is still
\* in the list that was broadcast.
C10_Witness ==
    /\ last.event = "disconnect" /\ last.sid = "c1"
    /\ connected = {"c2"}
    /\ PresentOn("c2", "M1")
    /\ Len(outbox) = 1
    /\ outbox[1].data.onlineMachines = {"M1"}

\* A send-message input that names a target and a text, while no presence
\* entry names the target.
OfflineMessage(sid_to_machine, data) ==
    /\ Get(data, "targetMachine", "") # ""
    /\ Get(data, "messageText", "") # ""
    /\ \A c \in DOMAIN sid_to_machine : sid_to_machine[c] # data["targetMachine"]

OfflineReason == <<"Machine is currently offline or not connected.">>

\* C11: a send-message event whose target machine has no presence entry
\* delivers no live_message to any connection, sends the sender (and nobody
\* else) one failure confirmation with the offline reason, and changes no
\* store.
C11_OfflineMessageFails ==
    [][(last'.event = "send_live_message" /\ OfflineMessage(SID_TO_MACHINE, last'.data))
          => /\ UNCHANGED stores
             /\ \A i \in DOMAIN outbox' :
                   outbox'[i].event = "live_message" => outbox'[i].to = {}
             /\ Len(outbox') = 1
             /\ outbox'[1].event = "message_sent_confirm"
             /\ outbox'[1].to = {last'.sid}
             /\ outbox'[1].data.success = FALSE
             /\ outbox'[1].data.reason = OfflineReason]_vars

\* C11's case: a connection that had joined M1 rejoined M2 and is still in
\* M1's room; a message for M1 was refused as offline.
C11_Witness ==
    /\ last.event = "send_live_message"
    /\ OfflineMessage(SID_TO_MACHINE, last.data)
    /\ last.data["targetMachine"] = "M1"
    /\ \E c \in connected : "M1" \in rooms[c] /\ PresentOn(c, "M2")
    /\ Len(outbox) = 1
    /\ outbox[1].data.success = FALSE

\* The last event was a plan upload the route accepted.
AcceptedUpload(event) ==
    event.event = "upload_plan" /\ upload_plan_status(event.data) = 200

\* The text a cell of the sheet is stored as: '' for an empty cell.
TextOf(cell) == IF cell = None THEN "" ELSE cell[2]

\* A plan line is the sheet's row and nothing else: the row's columns with
\* the row's cells, a line id and the status pending.
LineOfRow(line, row) ==
    /\ DOMAIN line = DOMAIN row \cup {"line_id", "status"}
    /\ \A c \in DOMAIN row \ {"line_id", "status"} : line[c] = TextOf(row[c])
    /\ line["status"] = "pending"

\* C12: replacing the plan of a machine that has one discards the old plan
\* wholesale: the new plan is exactly the lines of the new sheet, all
\* pending, with no line, field or completed status of the old plan, and
\* the plans of the other machines are unchanged.
C12_ReplaceDiscardsOld ==
    [][(AcceptedUpload(last') /\ last'.data["target_machine"] \in DOMAIN MACHINE_PLANS)
          => LET m == last'.data["target_machine"]
                 rows == last'.data["plan_sheet"].rows
                 plan == MACHINE_PLANS'[m]
             IN /\ Len(plan) <= Len(rows)
                /\ \A i \in DOMAIN plan : LineOfRow(plan[i], rows[i])
                /\ DOMAIN MACHINE_PLANS' = DOMAIN MACHINE_PLANS
                /\ \A other \in DOMAIN MACHINE_PLANS \ {m} :
                      MACHINE_PLANS'[other] = MACHINE_PLANS[other]]_vars

\* C12's case: M1 and M2 had plans, M2's with a completed line; a one-row
\* sheet of another column replaced M1's plan, which now is that one pending
\* line, and M2's completed line is still there.
C12_Witness ==
    /\ AcceptedUpload(last)
    /\ last.data = [target_machine |-> "M1", plan_sheet |-> OtherSheet]
    /\ "M2" \in DOMAIN MACHINE_PLANS
    /\ \E i \in DOMAIN MACHINE_PLANS["M2"] : MACHINE_PLANS["M2"][i]["status"] = "completed"
    /\ MACHINE_PLANS["M1"] =
          << [Note |-> "N1", line_id |-> <<"M1", 1>>, status |-> "pending"] >>

Min(a, b) == IF a < b THEN a ELSE b

\* The machine list of a snapshot: every machine with a plan, once, in
\* ascending order.
MachineListSorted(machines) ==
    /\ Range(machines) = DOMAIN MACHINE_PLANS
    /\ \A i, j \in DOMAIN machines :
          i < j => MachineRank[machines[i]] < MachineRank[machines[j]]

\* C13: after a sheet of n rows is uploaded for machine m, m's plan holds
\* min(n, 10) lines in sheet order, line i with the line id <m>_<i> and the
\* status pending; a machine that has a plan keeps having one, and the
\* machine list of every snapshot holds exactly the machines with a plan, in
\* ascending order without duplicates.
C13_UploadedPlanAndMachineList ==
    /\ [][AcceptedUpload(last')
            => LET m == last'.data["target_machine"]
                   rows == last'.data["plan_sheet"].rows
                   plan == MACHINE_PLANS'[m]
               IN /\ Len(plan) = Min(Len(rows), 10)
                  /\ \A i \in DOMAIN plan :
                        /\ plan[i]["line_id"] = <<m, i>>
                        /\ plan[i]["status"] = "pending"
                        /\ \A c \in DOMAIN rows[i] : plan[i][c] = TextOf(rows[i][c])
                  /\ \A i, j \in DOMAIN plan :
                        plan[i]["line_id"] = plan[j]["line_id"] => i = j]_vars
    /\ [][DOMAIN MACHINE_PLANS \subseteq DOMAIN MACHINE_PLANS']_vars
    /\ [](\A i \in Emitted("update_dashboard") :
             MachineListSorted(outbox[i].data.machines))

\* C13's case: M2 got its plan first, then a sheet of eleven rows was
\* uploaded for M1: M1's plan has ten lines, the last with id M1_10, and the
\* snapshot lists M1 before M2.
C13_Witness ==
    /\ AcceptedUpload(last)
    /\ last.data = [target_machine |-> "M1", plan_sheet |-> LongSheet]
    /\ Len(last.data["plan_sheet"].rows) = 11
    /\ Len(MACHINE_PLANS["M1"]) = 10
    /\ MACHINE_PLANS["M1"][10] = [Part |-> "R10", line_id |-> <<"M1", 10>>, status |-> "pending"]
    /\ \E i \in Emitted("update_dashboard") : outbox[i].data.machines = <<"M1", "M2">>

\* The date a dashboard-data request is answered for: the one it names, or
\* the day the clock showed.
RequestedDate(event) == date_or_today(Get(event.data, "date", <<>>), event.now)

\* Two date texts name the same date.
SameDate(a, b) ==
    a = b \/ (DateParses(a) /\ DateParses(b) /\ strptime_date(a) = strptime_date(b))

\* C14: computing the dashboard view is read-only and idempotent: a
\* dashboard-data request changes none of the stores; computing the view
\* again in the state the request left gives the snapshot the request sent;
\* and of two requests for the same date with no event between them the
\* second sends the snapshot the first sent (log, chart totals, machine list
\* and stock table alike).
C14_ViewIdempotentReadOnly ==
    /\ [][last'.event = "request_dashboard_data" => UNCHANGED <<stores, stock_file>>]_vars
    /\ [](last.event = "request_dashboard_data"
            => outbox = <<broadcast_data(connected, SUBMISSION_LOG, MACHINE_PLANS,
                                         INITIAL_CABLE_STOCK,
                                         Get(last.data, "date", <<>>), last.now)>>)
    /\ [][(/\ last.event = "request_dashboard_data"
           /\ last'.event = "request_dashboard_data"
           /\ SameDate(RequestedDate(last), RequestedDate(last')))
            => outbox'[1].data = outbox[1].data]_vars

\* C14's case: a request without a date on a day of two stored entries, the
\* older stored first: the snapshot shows the newer first, the store still
\* has the older first, and computing the view again gives the same snapshot.
C14_Witness ==
    /\ UndatedRequest
    /\ Len(SUBMISSION_LOG) = 2
    /\ DtKey(SUBMISSION_LOG[1]["datetime"]) < DtKey(SUBMISSION_LOG[2]["datetime"])
    /\ Len(outbox[1].data.log) = 2
    /\ outbox[1].data.log[1] = clean_entry(SUBMISSION_LOG[2])
    /\ outbox[1].data = dashboard_data(SUBMISSION_LOG, MACHINE_PLANS, INITIAL_CABLE_STOCK,
                                       strftime_date(last.now), last.now)

\* `after` is `before` with one entry more, at the end.
IsPrefix(before, after) ==
    Len(before) <= Len(after) /\ SubSeq(after, 1, Len(before)) = before

\* The store grew by one entry, which holds every field that was submitted.
AppendedTo(before, after, data) ==
    /\ Len(after) = Len(before) + 1
    /\ IsPrefix(before, after)
    /\ \A k \in DOMAIN data : k \in DOMAIN after[Len(after)] /\ after[Len(after)][k] = data[k]

\* C15: every submit event is answered, in the handler, with exactly one
\* submission_success message, delivered to the submitting connection and
\* to no other, and it reports success exactly when the entry was appended
\* to the submission store.
C15_OneAckToSubmitter ==
    [][last'.event = "submit_output"
          => LET acks == {i \in DOMAIN outbox' : outbox'[i].event = "submission_success"}
             IN /\ Cardinality(acks) = 1
                /\ \A i \in acks :
                      /\ outbox'[i].to = {last'.sid}
                      /\ outbox'[i].data.success
                            <=> AppendedTo(SUBMISSION_LOG, SUBMISSION_LOG', last'.data)
                      /\ ~outbox'[i].data.success => SUBMISSION_LOG' = SUBMISSION_LOG]_vars

\* C15's case: with two clients connected a submission was appended; the
\* snapshot went to both, the one acknowledgment to the submitter alone.
C15_Witness ==
    /\ last.event = "submit_output"
    /\ connected = Sids
    /\ Len(outbox) = 2
    /\ outbox[1].event = "update_dashboard" /\ outbox[1].to = Sids
    /\ outbox[2].event = "submission_success" /\ outbox[2].to = {last.sid}
    /\ outbox[2].data.success
    /\ SUBMISSION_LOG[Len(SUBMISSION_LOG)]["entry_date"] = last.data["entry_date"]

\* The last event was a submit that was acknowledged as a success.
SuccessfulSubmit(event, sent) ==
    /\ event.event = "submit_output"
    /\ \E i \in DOMAIN sent : sent[i].event = "submission_success" /\ sent[i].data.success

\* C18: the submission store is append-only in arrival order: over every
\* event (the date-filtered and malformed-date queries included) the store
\* before the event is a prefix of the store after it; a successful submit
\* adds exactly one entry, the submitted one, at the end, and no other event
\* adds any.
C18_AppendOnly ==
    [][/\ IsPrefix(SUBMISSION_LOG, SUBMISSION_LOG')
       /\ SuccessfulSubmit(last', outbox')
            => /\ Len(SUBMISSION_LOG') = Len(SUBMISSION_LOG) + 1
               /\ SUBMISSION_LOG'[Len(SUBMISSION_LOG')] =
                     Put(last'.data, "datetime",
                         <<Numeral[last'.data["entry_date"][1]].val,
                           Numeral[last'.data["entry_date"][2]].val,
                           Numeral[last'.data["entry_date"][3]].val,
                           Numeral[last'.data["entry_time"][1]].val,
                           Numeral[last'.data["entry_time"][2]].val>>)
       /\ ~SuccessfulSubmit(last', outbox') => SUBMISSION_LOG' = SUBMISSION_LOG]_vars

\* C18's case: the store holds the morning's entry before the evening's; a
\* query for that day, written '2024-5-1', was answered with the evening's
\* entry first, and the store still has its arrival order.
C18_Witness ==
    /\ last.event = "request_dashboard_data"
    /\ Get(last.data, "date", <<>>) = Day1Unpadded
    /\ Len(SUBMISSION_LOG) = 2
    /\ SUBMISSION_LOG[1]["entry_time"] = Morning
    /\ SUBMISSION_LOG[2]["entry_time"] = Evening
    /\ DateOf(SUBMISSION_LOG[1]["datetime"]) = DateOf(SUBMISSION_LOG[2]["datetime"])
    /\ outbox[1].data.log[1].time_display = strftime_display(SUBMISSION_LOG[2]["datetime"])

\* A mark-complete input whose line id is the id of a line of the named
\* machine's plan.
KnownLine(plans, data) ==
    /\ "machineName" \in DOMAIN data /\ "lineId" \in DOMAIN data
    /\ data["machineName"] \in DOMAIN plans
    /\ \E i \in DOMAIN plans[data["machineName"]] :
          plans[data["machineName"]][i]["line_id"] = data["lineId"]

\* The index of the first line of the plan that has the line id.
FirstWithId(plan, id) ==
    CHOOSE i \in DOMAIN plan :
        plan[i]["line_id"] = id /\ \A j \in DOMAIN plan : plan[j]["line_id"] = id => i <= j

\* C16: a mark-complete event for machine m and a line id of m's plan sets
\* the status of the first line with that id to completed and leaves every
\* other line of the plan, every other field of that line and every other
\* machine's plan unchanged; the updated plan is then pushed, once, to the
\* connections in m's room.
C16_MarkCompleteFrame ==
    [][(last'.event = "mark_plan_complete" /\ KnownLine(MACHINE_PLANS, last'.data))
          => LET m == last'.data["machineName"]
                 old == MACHINE_PLANS[m]
                 new == MACHINE_PLANS'[m]
                 first == FirstWithId(old, last'.data["lineId"])
             IN /\ DOMAIN MACHINE_PLANS' = DOMAIN MACHINE_PLANS
                /\ \A other \in DOMAIN MACHINE_PLANS \ {m} :
                      MACHINE_PLANS'[other] = MACHINE_PLANS[other]
                /\ Len(new) = Len(old)
                /\ \A i \in DOMAIN old \ {first} : new[i] = old[i]
                /\ DOMAIN new[first] = DOMAIN old[first]
                /\ new[first]["status"] = "completed"
                /\ \A k \in DOMAIN old[first] \ {"status"} : new[first][k] = old[first][k]
                /\ Len(outbox') = 1
                /\ outbox'[1].event = "update_worker_plan"
                /\ outbox'[1].to = {c \in connected : m \in rooms[c]}
                /\ outbox'[1].data = [plan |-> new, machineName |-> m]]_vars

\* C16's case: both connections are in M1's room and M2 has a plan; one of
\* them completed line M1_1, line M1_2 is still pending, and both received
\* the updated plan.
C16_Witness ==
    /\ last.event = "mark_plan_complete"
    /\ last.data = [machineName |-> "M1", lineId |-> <<"M1", 1>>]
    /\ "M2" \in DOMAIN MACHINE_PLANS
    /\ KnownLine(MACHINE_PLANS, last.data)
    /\ MACHINE_PLANS["M1"][1]["status"] = "completed"
    /\ MACHINE_PLANS["M1"][2]["status"] = "pending"
    /\ Len(outbox) = 1
    /\ outbox[1].to = Sids
    /\ outbox[1].data.plan = MACHINE_PLANS["M1"]

\* C20: a join event that names a machine records that machine as the
\* joining connection's presence entry, whatever the entry was, and changes
\* no other connection's entry; the machine's current plan (as it stands,
\* completed lines included, or the empty plan when it has none) and a
\* success join_confirm go to the joining connection only.  A join that
\* names no machine changes no state and sends only a failure join_confirm,
\* to the sender.
C20_JoinRecordsAndAnswersJoiner ==
    [][last'.event = "join_machine_room"
          => IF Get(last'.data, "machineName", "") # ""
             THEN LET m == last'.data["machineName"]
                      sid == last'.sid
                      plans == {i \in DOMAIN outbox' : outbox'[i].event = "update_worker_plan"}
                      confirms == {i \in DOMAIN outbox' : outbox'[i].event = "join_confirm"}
                  IN /\ DOMAIN SID_TO_MACHINE' = DOMAIN SID_TO_MACHINE \cup {sid}
                     /\ SID_TO_MACHINE'[sid] = m
                     /\ \A c \in DOMAIN SID_TO_MACHINE \ {sid} :
                           SID_TO_MACHINE'[c] = SID_TO_MACHINE[c]
                     /\ Cardinality(plans) = 1 /\ Cardinality(confirms) = 1
                     /\ \A i \in plans :
                           /\ outbox'[i].to = {sid}
                           /\ outbox'[i].data.machineName = m
                           /\ outbox'[i].data.plan =
                                 IF m \in DOMAIN MACHINE_PLANS THEN MACHINE_PLANS[m] ELSE <<>>
                     /\ \A i \in confirms :
                           /\ outbox'[i].to = {sid}
                           /\ outbox'[i].data = [success |-> TRUE, machineName |-> m]
                     /\ UNCHANGED <<SUBMISSION_LOG, MACHINE_PLANS, INITIAL_CABLE_STOCK>>
             ELSE /\ UNCHANGED <<stores, stock_file, connected, rooms>>
                  /\ Len(outbox') = 1
                  /\ outbox'[1].event = "join_confirm"
                  /\ outbox'[1].to = {last'.sid}
                  /\ outbox'[1].data.success = FALSE]_vars

\* C20's case: c2 is present on M1 and in M1's room; c1, which had joined
\* M2, joined M1, whose plan has a completed line: c1 alone received that
\* plan and the confirmation, and c2's entry is as it was.
C20_Witness ==
    /\ last.event = "join_machine_room" /\ last.sid = "c1"
    /\ Get(last.data, "machineName", "") = "M1"
    /\ "M1" \in DOMAIN MACHINE_PLANS
    /\ "M2" \in rooms["c1"]
    /\ PresentOn("c1", "M1") /\ PresentOn("c2", "M1") /\ "M1" \in rooms["c2"]
    /\ Len(outbox) = 3
    /\ outbox[2].event = "update_worker_plan" /\ outbox[2].to = {"c1"}
    /\ outbox[2].data.plan = MACHINE_PLANS["M1"]
    /\ MACHINE_PLANS["M1"][1]["status"] = "completed"
    /\ outbox[3].event = "join_confirm" /\ outbox[3].to = {"c1"}

\* C17: each inbound event changes at most the store named for it: submit
\* only the submission store; plan upload and mark-complete only the plan
\* registry; join and disconnect only the presence map; send-message,
\* dashboard-data request and connect no store; stock upload only the stock
\* table, which no other event changes.
C17_OneStorePerEvent ==
    [][/\ last'.event = "submit_output"
            => UNCHANGED <<MACHINE_PLANS, SID_TO_MACHINE, INITIAL_CABLE_STOCK>>
       /\ last'.event \in {"upload_plan", "mark_plan_complete"}
            => UNCHANGED <<SUBMISSION_LOG, SID_TO_MACHINE, INITIAL_CABLE_STOCK>>
       /\ last'.event \in {"join_machine_room", "disconnect"}
            => UNCHANGED <<SUBMISSION_LOG, MACHINE_PLANS, INITIAL_CABLE_STOCK>>
       /\ last'.event \in {"send_live_message", "request_dashboard_data", "connect"}
            => UNCHANGED stores
       /\ last'.event = "upload_stock"
            => UNCHANGED <<SUBMISSION_LOG, MACHINE_PLANS, SID_TO_MACHINE>>
       /\ last'.event # "upload_stock"
            => UNCHANGED <<INITIAL_CABLE_STOCK, stock_file>>]_vars

\* C17's case: every store holds something, and the last event, a submit,
\* added an entry while a stock table was loaded.
C17_Witness ==
    /\ last.event = "submit_output"
    /\ Len(SUBMISSION_LOG) = 2
    /\ DOMAIN MACHINE_PLANS # {}
    /\ DOMAIN SID_TO_MACHINE # {}
    /\ "CB1" \in DOMAIN INITIAL_CABLE_STOCK /\ INITIAL_CABLE_STOCK["CB1"] = 10
    /\ Emitted("update_dashboard") # {}

\* The value the claim gives a terminal metric of an entry: the manual value
\* when the entry has one, else the measured value when it has one, else
\* none.
ManualOverMeasured(entry, metric) ==
    IF ManualKey(metric) \in DOMAIN entry THEN entry[ManualKey(metric)]
    ELSE IF MeasuredKey(metric) \in DOMAIN entry THEN entry[MeasuredKey(metric)]
    ELSE None

\* The stored entries a displayed entry of a snapshot may stand for, and
\* those a row of the export may stand for.
ShownAs(shown) ==
    {e \in Range(SUBMISSION_LOG) :
        /\ shown.time_display = strftime_display(e["datetime"])
        /\ shown.machine_name = Get(e, "machine_name", "N/A")
        /\ shown.produced_qty = Get(e, "produced_qty", Num(0))}

ExportedAs(row) ==
    {e \in Range(SUBMISSION_LOG) :
        /\ row["Date"] = strftime_date(e["datetime"])
        /\ row["Time"] = strftime_time(e["datetime"])
        /\ row["Machine Name"] = Get(e, "machine_name", "")
        /\ row["Produced Qty"] = Get(e, "produced_qty", Num(0))}

\* C19: for each of the ten terminal metrics of an entry, the value shown in
\* a dashboard snapshot and in the export is the manual value whenever the
\* entry has a manual value (a manual value of 0 included), the measured
\* value when it has only that, and none when it has neither.
C19_ManualOverridesMeasured ==
    /\ \A i \in Emitted("update_dashboard") :
          \A j \in DOMAIN outbox[i].data.log :
              \E e \in ShownAs(outbox[i].data.log[j]) :
                  \A metric \in Metrics :
                      outbox[i].data.log[j][metric] = ManualOverMeasured(e, metric)
    /\ \A j \in DOMAIN export_rows(SUBMISSION_LOG) :
          \E e \in ExportedAs(export_rows(SUBMISSION_LOG)[j]) :
              \A metric \in Metrics :
                  export_rows(SUBMISSION_LOG)[j][ExportColumn(metric)]
                    = ManualOverMeasured(e, metric)

\* The machines some presence entry names.
PresentMachines(sid_to_machine) ==
    {m \in Machines : \E c \in DOMAIN sid_to_machine : sid_to_machine[c] = m}

\* C21: the online-machine list is never stale.  Every event that changes
\* the presence map (a join, a disconnect) broadcasts an online-machine list
\* to every open connection; every list that is broadcast holds exactly the
\* machines of the presence map as the event left it, each once; and only a
\* join or a disconnect changes the map.  So the list broadcast last is the
\* set of machines of the current presence map.
C21_ListNeverStale ==
    /\ [][SID_TO_MACHINE' # SID_TO_MACHINE
            => /\ last'.event \in {"join_machine_room", "disconnect"}
               /\ \E i \in DOMAIN outbox' :
                     /\ outbox'[i].event = "update_machine_status"
                     /\ outbox'[i].to = connected']_vars
    /\ [](\A i \in Emitted("update_machine_status") :
             outbox[i].data.onlineMachines = PresentMachines(SID_TO_MACHINE))

\* C21's case: c1 had a presence entry and c2 is present on M1; c1
\* disconnected, its entry is gone, and the list c2 received holds M1 alone.
C21_Witness ==
    /\ last.event = "disconnect" /\ last.sid = "c1"
    /\ "M1" \in rooms["c2"] /\ PresentOn("c2", "M1")
    /\ DOMAIN SID_TO_MACHINE = {"c2"}
    /\ Len(outbox) = 1
    /\ outbox[1].event = "update_machine_status"
    /\ outbox[1].to = {"c2"}
    /\ outbox[1].data.onlineMachines = {"M1"}

====
